---- MODULE Spec2Model ----
(***************************************************************************)
(* A model of synacor/argon2id: the textual hash record                    *)
(*   $argon2id<version>$<time>,<memory>,<threads>$<salt>$<hash>            *)
(* its construction (HashPassword), its parsing and validation             *)
(* (newHashedFromHashedPassword) and its verification (Compare).           *)
(*                                                                         *)
(* Texts are sequences of one-character strings, byte buffers are          *)
(* sequences of integers in 0..255.  Errors are records [kind, pos]; pos   *)
(* is only meaningful for base64.CorruptInputError.                        *)
(***************************************************************************)
EXTENDS Integers, Sequences, FiniteSets, TLC

(***************************************************************************)
(* Let(v, F) is F(v) with v evaluated once: a local variable of the code.  *)
(***************************************************************************)
The(S) == CHOOSE x \in S : TRUE
Let(v, F(_)) == The({ F(x) : x \in {v} })

(***************************************************************************)
(* Bounds of the model (not program constants).                            *)
(***************************************************************************)
\* keyLen arguments 0..MaxKeyLen are all tried (plus the two of the tests)
MaxKeyLen == 3
\* received salt and hash segments have 1..MaxSegLen characters
MaxSegLen == 5

(***************************************************************************)
(* Program constants.                                                      *)
(***************************************************************************)
saltLen == 16
defaultTime == 1
defaultMemory == 65536
defaultThreads == 4
defaultKeyLen == 32
\* argon2.Version of golang.org/x/crypto/argon2 (0x13), see the tests
Version == 19
MaxUint8 == 255

(***************************************************************************)
(* Wide integers.  time and memory are uint32 in HashPassword and int (64  *)
(* bits, up to ten decimal digits) in newHashedFromHashedPassword; both    *)
(* exceed the integers of the model checker, so such a value v is kept as  *)
(* two limbs, v = hi * Base + lo with 0 <= lo < Base.                      *)
(***************************************************************************)
Base == 100000
W(h, l) == [hi |-> h, lo |-> l]
WOf(n) == W(n \div Base, n % Base)
WZero == W(0, 0)
\* v * 10 + d
WShift(v, d) ==
    Let(v.lo * 10 + d, LAMBDA l : W(v.hi * 10 + l \div Base, l % Base))
\* a > b
WGt(a, b) == a.hi > b.hi \/ (a.hi = b.hi /\ a.lo > b.lo)
\* math.MaxUint32 = 4294967295
MaxUint32 == W(42949, 67295)

(***************************************************************************)
(* Errors.                                                                 *)
(***************************************************************************)
Err(k) == [kind |-> k, pos |-> 0]
nil == Err("nil")
ErrInvalidHash == Err("ErrInvalidHash")
ErrInvalidComplexity == Err("ErrInvalidComplexity")
ErrInvalidArgon2Version == Err("ErrInvalidArgon2Version")
ErrMismatchedHashAndPassword == Err("ErrMismatchedHashAndPassword")
CorruptInputError(p) == [kind |-> "CorruptInputError", pos |-> p]
\* errors of the randomness source
ErrEOF == Err("io.EOF")
ErrUnexpectedEOF == Err("io.ErrUnexpectedEOF")
ErrEntropy == Err("syscall.EAGAIN")

(***************************************************************************)
(* Characters.                                                             *)
(***************************************************************************)
Digits == <<"0","1","2","3","4","5","6","7","8","9">>
Upper == <<"A","B","C","D","E","F","G","H","I","J","K","L","M",
           "N","O","P","Q","R","S","T","U","V","W","X","Y","Z">>
Lower == <<"a","b","c","d","e","f","g","h","i","j","k","l","m",
           "n","o","p","q","r","s","t","u","v","w","x","y","z">>
Range(s) == {s[i] : i \in 1..Len(s)}
DigitSet == Range(Digits)

\* the alphabet handed to base64.NewEncoding
Alphabet == <<".","/">> \o Upper \o Lower \o Digits
AlphabetSet == Range(Alphabet)

\* the class of standard base64, [+/a-zA-Z0-9], in place of the crypt one
RxSegClass_Base64 == {"+","/"} \cup Range(Lower) \cup Range(Upper) \cup DigitSet

\* the character class [./a-zA-Z0-9] of rx
RxSegClass == {".","/"} \cup Range(Lower) \cup Range(Upper) \cup DigitSet

(***************************************************************************)
(* encoding = base64.NewEncoding(Alphabet).WithPadding(NoPadding)          *)
(***************************************************************************)
\* Encoding.decodeMap: the 6-bit value of a character, 255 (0xff) if none
decodeMap(c) ==
    IF c \in AlphabetSet
    THEN (CHOOSE i \in 1..64 : Alphabet[i] = c) - 1
    ELSE 255

\* Encoding.encode[v]
encodeChar(v) == Alphabet[v + 1]

RECURSIVE EncodeFrom(_, _)
\* Encoding.Encode from byte i on: 3 bytes to 4 characters, a remainder of
\* 1 byte to 2 characters and of 2 bytes to 3, no padding character
EncodeFrom(src, i) ==
    IF i > Len(src) THEN <<>>
    ELSE IF i + 2 <= Len(src) THEN
        Let(src[i] * 65536 + src[i + 1] * 256 + src[i + 2], LAMBDA val :
            << encodeChar(val \div 262144), encodeChar((val \div 4096) % 64),
               encodeChar((val \div 64) % 64), encodeChar(val % 64) >>)
        \o EncodeFrom(src, i + 3)
    ELSE IF i + 1 = Len(src) THEN
        Let(src[i] * 65536 + src[i + 1] * 256, LAMBDA val :
            << encodeChar(val \div 262144), encodeChar((val \div 4096) % 64),
               encodeChar((val \div 64) % 64) >>)
    ELSE
        Let(src[i] * 65536, LAMBDA val :
            << encodeChar(val \div 262144), encodeChar((val \div 4096) % 64) >>)

\* Encoding.EncodeToString
EncodeToString(src) == Let(src, LAMBDA b : EncodeFrom(b, 1))

\* the bytes of one quantum of Len(dbuf) sextets (the encoding is not
\* strict: the bits left over in the last sextet are dropped unchecked)
QuantumBytes(dbuf) ==
    Let(dbuf, LAMBDA b :
        Let( (IF Len(b) >= 1 THEN b[1] * 262144 ELSE 0)
           + (IF Len(b) >= 2 THEN b[2] * 4096 ELSE 0)
           + (IF Len(b) >= 3 THEN b[3] * 64 ELSE 0)
           + (IF Len(b) >= 4 THEN b[4] ELSE 0), LAMBDA val :
            SubSeq(<< val \div 65536, (val \div 256) % 256, val % 256 >>,
                   1, Len(b) - 1)))

RECURSIVE decodeQuantum(_, _, _)
\* Encoding.decodeQuantum from 1-based position si with dbuf collected so
\* far: [si, bytes, err].  Positions in errors are 0-based as in Go.
decodeQuantum(src, si, dbuf) ==
    IF Len(dbuf) = 4
    THEN [si |-> si, bytes |-> QuantumBytes(dbuf), err |-> nil]
    ELSE IF si > Len(src) THEN
        IF Len(dbuf) = 0
        THEN [si |-> si, bytes |-> <<>>, err |-> nil]
        ELSE IF Len(dbuf) = 1
        THEN [si |-> si, bytes |-> <<>>,
              err |-> CorruptInputError((si - 1) - Len(dbuf))]
        ELSE [si |-> si, bytes |-> QuantumBytes(dbuf), err |-> nil]
    ELSE
        Let(decodeMap(src[si]), LAMBDA out :
            IF out # 255 THEN decodeQuantum(src, si + 1, Append(dbuf, out))
            ELSE IF src[si] = "\n" \/ src[si] = "\r"
            THEN decodeQuantum(src, si + 1, dbuf)
            ELSE [si |-> si + 1, bytes |-> <<>>,
                  err |-> CorruptInputError(si - 1)])

RECURSIVE Decode(_, _)
\* Encoding.Decode from position si on: quanta until the input ends or one
\* fails; the bytes decoded before a failure are returned with it
Decode(src, si) ==
    IF si > Len(src) THEN [bytes |-> <<>>, err |-> nil]
    ELSE Let(decodeQuantum(src, si, <<>>), LAMBDA q :
            IF q.err # nil THEN [bytes |-> q.bytes, err |-> q.err]
            ELSE Let(Decode(src, q.si), LAMBDA r :
                    [bytes |-> q.bytes \o r.bytes, err |-> r.err]))

\* Encoding.DecodeString
DecodeString(s) == Let(s, LAMBDA src : Decode(src, 1))

(***************************************************************************)
(* Decimal conversions: strconv.Atoi and the %d verb of fmt.Sprintf.       *)
(***************************************************************************)
digitVal(c) == (CHOOSE i \in 1..10 : Digits[i] = c) - 1

RECURSIVE AtoiN(_, _)
\* the value of the first n digits of s
AtoiN(s, n) ==
    IF n = 0 THEN WZero
    ELSE Let(AtoiN(s, n - 1), LAMBDA acc : WShift(acc, digitVal(s[n])))

\* strconv.Atoi of one to ten decimal digits (no sign, no overflow of the
\* 64-bit int): the value, leading zeros ignored
Atoi(s) == Let(s, LAMBDA d : AtoiN(d, Len(d)))

RECURSIVE FormatNat(_)
\* the decimal digits of a natural number below Base, no leading zeros
FormatNat(n) ==
    IF n < 10 THEN <<Digits[n + 1]>>
    ELSE FormatNat(n \div 10) \o <<Digits[(n % 10) + 1]>>

\* the low limb under a non-zero high limb: exactly five digits
FormatLimb(n) ==
    << Digits[(n \div 10000) + 1], Digits[((n \div 1000) % 10) + 1],
       Digits[((n \div 100) % 10) + 1], Digits[((n \div 10) % 10) + 1],
       Digits[(n % 10) + 1] >>

\* %d of an unsigned value
FormatUint(v) ==
    IF v.hi = 0 THEN FormatNat(v.lo) ELSE FormatNat(v.hi) \o FormatLimb(v.lo)

(***************************************************************************)
(* rx = ^\$argon2id([0-9]{1,4})\$([0-9]{1,10}),([0-9]{1,10}),([0-9]{1,3})  *)
(*      \$([./a-zA-Z0-9]+)\$([./a-zA-Z0-9]+)$                              *)
(* No delimiter belongs to the class of the group before it, so the        *)
(* leftmost match takes every group as the longest run of its class.       *)
(***************************************************************************)
RxPrefix == <<"$","a","r","g","o","n","2","i","d">>

RECURSIVE RunEnd(_, _, _)
\* the position after the longest run of characters of cls starting at i
RunEnd(s, i, cls) ==
    IF i <= Len(s) /\ s[i] \in cls THEN RunEnd(s, i + 1, cls) ELSE i

\* a literal character at position i
At(s, i, c) == i <= Len(s) /\ s[i] = c

\* a group whose upper bound is not enforced ({1,} for {1,4})
Group_NoUpperBound(s, i, cls, lo, hi, c) ==
    Let(RunEnd(s, i, cls), LAMBDA e :
        IF /\ e - i >= lo
           /\ IF c = "" THEN e = Len(s) + 1 ELSE At(s, e, c)
        THEN e ELSE 0)

\* a group of lo..hi characters (hi = 0: no upper bound) of cls starting at
\* i and followed by the delimiter c (c = "": by the end of the text):
\* the position of the delimiter, 0 if there is no such group
Group(s, i, cls, lo, hi, c) ==
    Let(RunEnd(s, i, cls), LAMBDA e :
        IF /\ e - i >= lo
           /\ (hi = 0 \/ e - i <= hi)
           /\ IF c = "" THEN e = Len(s) + 1 ELSE At(s, e, c)
        THEN e ELSE 0)

\* the six groups from positions p[1]..p[7] of their delimiters
Submatches(s, p) == [k \in 1..6 |-> SubSeq(s, p[k] + 1, p[k + 1] - 1)]

\* rx.FindStringSubmatch: <<>> for nil, else the six groups match[1..6]
FindStringSubmatch(hashedPassword) ==
    Let(hashedPassword, LAMBDA s :
    IF ~(Len(s) >= Len(RxPrefix) /\ SubSeq(s, 1, Len(RxPrefix)) = RxPrefix)
    THEN <<>> ELSE
    Let(Group(s, Len(RxPrefix) + 1, DigitSet, 1, 4, "$"), LAMBDA p1 :
    IF p1 = 0 THEN <<>> ELSE
    Let(Group(s, p1 + 1, DigitSet, 1, 10, ","), LAMBDA p2 :
    IF p2 = 0 THEN <<>> ELSE
    Let(Group(s, p2 + 1, DigitSet, 1, 10, ","), LAMBDA p3 :
    IF p3 = 0 THEN <<>> ELSE
    Let(Group(s, p3 + 1, DigitSet, 1, 3, "$"), LAMBDA p4 :
    IF p4 = 0 THEN <<>> ELSE
    Let(Group(s, p4 + 1, RxSegClass, 1, 0, "$"), LAMBDA p5 :
    IF p5 = 0 THEN <<>> ELSE
    Let(Group(s, p5 + 1, RxSegClass, 1, 0, ""), LAMBDA p6 :
    IF p6 = 0 THEN <<>> ELSE
    Submatches(s, <<Len(RxPrefix), p1, p2, p3, p4, p5, p6>>))))))))

\* rx.MatchString
MatchString(s) == FindStringSubmatch(s) # <<>>

\* IsHashedPassword
IsHashedPassword(hashedPassword) == MatchString(hashedPassword)

(***************************************************************************)
(* The derivation primitive argon2.IDKey is outside the repository.  It is *)
(* deterministic and returns keyLen bytes; the stand-in below mixes every  *)
(* argument into every byte.                                               *)
(***************************************************************************)
RECURSIVE SumBytes(_, _)
SumBytes(b, i) ==
    IF i > Len(b) THEN 0 ELSE (b[i] * (i + 2) + SumBytes(b, i + 1)) % 256

Seed(password, salt, time, memory, threads, keyLen) ==
    ( SumBytes(password, 1) * 7 + Len(password) * 3
    + SumBytes(salt, 1) * 5 + Len(salt)
    + (time.hi + time.lo) * 11 + (memory.hi + memory.lo) * 13
    + threads * 17 + keyLen * 19 ) % 256

IDKey(password, salt, time, memory, threads, keyLen) ==
    Let(Seed(password, salt, time, memory, threads, keyLen), LAMBDA sd :
        [i \in 1..keyLen |-> (sd + i * 23) % 256])

(***************************************************************************)
(* subtle.ConstantTimeCompare                                              *)
(***************************************************************************)
Pow2 == <<1, 2, 4, 8, 16, 32, 64, 128>>
Bit(a, k) == (a \div Pow2[k]) % 2
XorBit(a, b, k) == Pow2[k] * ((Bit(a, k) + Bit(b, k)) % 2)

\* a ^ b on bytes
Xor8(a, b) ==
    XorBit(a, b, 1) + XorBit(a, b, 2) + XorBit(a, b, 3) + XorBit(a, b, 4)
    + XorBit(a, b, 5) + XorBit(a, b, 6) + XorBit(a, b, 7) + XorBit(a, b, 8)

\* bit k of v after the loop "v |= x[i] ^ y[i]" over every i: set iff it
\* is set in some x[i] ^ y[i]
FoldBit(d, k) ==
    Pow2[k] * (IF \E i \in 1..Len(d) : Bit(d[i], k) = 1 THEN 1 ELSE 0)

\* a comparison that returns at the first pair of bytes that differ
ConstantTimeCompare_EarlyExit(x, y) ==
    IF Len(x) # Len(y) THEN [result |-> 0, steps |-> 0]
    ELSE IF x = y THEN [result |-> 1, steps |-> Len(x)]
    ELSE [result |-> 0,
          steps |-> CHOOSE i \in 1..Len(x) :
                        x[i] # y[i] /\ \A j \in 1..(i - 1) : x[j] = y[j]]

\* [result, steps]: 0 at once when the lengths differ, else 1 iff the OR
\* of all x[i] ^ y[i] is 0, every byte visited
ConstantTimeCompare(x, y) ==
    IF Len(x) # Len(y) THEN [result |-> 0, steps |-> 0]
    ELSE Let([i \in 1..Len(x) |-> Xor8(x[i], y[i])], LAMBDA d :
         Let(FoldBit(d, 1) + FoldBit(d, 2) + FoldBit(d, 3) + FoldBit(d, 4)
             + FoldBit(d, 5) + FoldBit(d, 6) + FoldBit(d, 7) + FoldBit(d, 8),
             LAMBDA v :
             [result |-> IF v = 0 THEN 1 ELSE 0, steps |-> Len(x)]))

(***************************************************************************)
(* newHashedFromHashedPassword                                             *)
(***************************************************************************)
NoHashed == [time |-> WZero, memory |-> WZero, threads |-> 0,
             hash |-> <<>>, salt |-> <<>>]

\* the bounds check with a zero memory rejected too
InvalidComplexity_ZeroMemory(time, memory, threads) ==
    \/ time = WZero
    \/ WGt(time, MaxUint32)
    \/ memory = WZero
    \/ WGt(memory, MaxUint32)
    \/ threads = WZero
    \/ WGt(threads, WOf(MaxUint8))

\* the bounds check on the three cost values (all int)
InvalidComplexity(time, memory, threads) ==
    \/ time = WZero
    \/ WGt(time, MaxUint32)
    \/ WGt(memory, MaxUint32)
    \/ threads = WZero
    \/ WGt(threads, WOf(MaxUint8))

\* the checks in the order salt decode, hash decode, version, complexity
checkMatch_DecodeFirst(version, time, memory, threads, salt, hash) ==
    Let(DecodeString(salt), LAMBDA rawSalt :
    IF rawSalt.err # nil THEN [h |-> NoHashed, err |-> rawSalt.err]
    ELSE
    Let(DecodeString(hash), LAMBDA rawHash :
    IF rawHash.err # nil THEN [h |-> NoHashed, err |-> rawHash.err]
    ELSE IF version # WOf(Version)
    THEN [h |-> NoHashed, err |-> ErrInvalidArgon2Version]
    ELSE IF InvalidComplexity(time, memory, threads)
    THEN [h |-> NoHashed, err |-> ErrInvalidComplexity]
    ELSE [h |-> [time |-> time, memory |-> memory, threads |-> threads.lo,
                 hash |-> rawHash.bytes, salt |-> rawSalt.bytes],
          err |-> nil]))

\* the version check moved behind the bounds check
checkMatch_VersionLast(version, time, memory, threads, salt, hash) ==
    Let(DecodeString(hash), LAMBDA rawHash :
    IF rawHash.err # nil THEN [h |-> NoHashed, err |-> rawHash.err]
    ELSE
    Let(DecodeString(salt), LAMBDA rawSalt :
    IF rawSalt.err # nil THEN [h |-> NoHashed, err |-> rawSalt.err]
    ELSE IF InvalidComplexity(time, memory, threads)
    THEN [h |-> NoHashed, err |-> ErrInvalidComplexity]
    ELSE IF version # WOf(Version)
    THEN [h |-> NoHashed, err |-> ErrInvalidArgon2Version]
    ELSE [h |-> [time |-> time, memory |-> memory, threads |-> threads.lo,
                 hash |-> rawHash.bytes, salt |-> rawSalt.bytes],
          err |-> nil]))

\* the checks after the match, on match[1..6] with the integers converted
\* [h, err]; h is NoHashed (nil) when err is not nil
checkMatch(version, time, memory, threads, salt, hash) ==
    IF version # WOf(Version)
    THEN [h |-> NoHashed, err |-> ErrInvalidArgon2Version]
    ELSE
    Let(DecodeString(hash), LAMBDA rawHash :
    IF rawHash.err # nil THEN [h |-> NoHashed, err |-> rawHash.err]
    ELSE
    Let(DecodeString(salt), LAMBDA rawSalt :
    IF rawSalt.err # nil THEN [h |-> NoHashed, err |-> rawSalt.err]
    ELSE IF InvalidComplexity(time, memory, threads)
    THEN [h |-> NoHashed, err |-> ErrInvalidComplexity]
    ELSE [h |-> [time |-> time, memory |-> memory, threads |-> threads.lo,
                 hash |-> rawHash.bytes, salt |-> rawSalt.bytes],
          err |-> nil]))

\* [h, err]
newHashedFromHashedPassword(hashedPassword) ==
    Let(FindStringSubmatch(hashedPassword), LAMBDA match :
        IF match = <<>> THEN [h |-> NoHashed, err |-> ErrInvalidHash]
        ELSE
        Let(<<Atoi(match[1]), Atoi(match[2]), Atoi(match[3]), Atoi(match[4])>>,
            LAMBDA n : checkMatch(n[1], n[2], n[3], n[4], match[5], match[6])))

(***************************************************************************)
(* Compare.  calls is the sequence of invocations of the derivation        *)
(* primitive and of the randomness source made by the call.                *)
(***************************************************************************)
IDKeyCall(password, salt, time, memory, threads, keyLen) ==
    [fn |-> "argon2.IDKey", password |-> password, salt |-> salt,
     time |-> time, memory |-> memory, threads |-> threads, keyLen |-> keyLen]

\* the output length fixed instead of taken from the embedded hash
compareKeyLen_Default(h) == defaultKeyLen

\* the output length asked of the derivation: uint32(len(h.hash))
compareKeyLen(h) == Len(h.hash)

\* the derivation and the comparison, once the text is parsed
compareParsed(h, password) ==
    Let(IDKey(password, h.salt, h.time, h.memory, h.threads, compareKeyLen(h)),
        LAMBDA compareHash :
    Let(ConstantTimeCompare(h.hash, compareHash), LAMBDA c :
        [err |-> IF c.result = 1 THEN nil ELSE ErrMismatchedHashAndPassword,
         calls |-> << IDKeyCall(password, h.salt, h.time, h.memory, h.threads,
                                compareKeyLen(h)) >>,
         steps |-> c.steps]))

\* Compare deriving before it looks at the parse error
Compare_DeriveFirst(hashedPassword, password) ==
    Let(newHashedFromHashedPassword(hashedPassword), LAMBDA p :
    Let(compareParsed(p.h, password), LAMBDA r :
        IF p.err # nil THEN [err |-> p.err, calls |-> r.calls, steps |-> 0]
        ELSE r))

\* [err, calls, steps]
Compare(hashedPassword, password) ==
    Let(newHashedFromHashedPassword(hashedPassword), LAMBDA p :
        IF p.err # nil THEN [err |-> p.err, calls |-> <<>>, steps |-> 0]
        ELSE compareParsed(p.h, password))

(***************************************************************************)
(* generateSalt and HashPassword.  reader is rand.Reader at the time of    *)
(* the call: the bytes it can still supply (data) and the error it gives   *)
(* once they are used up (fail; io.EOF for the bytes.Buffer of the tests). *)
(***************************************************************************)
RandCall == [fn |-> "rand.Read"]

\* generateSalt dropping the error of rand.Read: the salt keeps the zero
\* bytes of make() where the source supplied none
generateSalt_IgnoresError(reader) ==
    [salt |-> [i \in 1..saltLen |->
                  IF i <= Len(reader.data) THEN reader.data[i] ELSE 0],
     err |-> nil]

\* generateSalt returning one and the same salt whatever the source supplies
generateSalt_Fixed(reader) ==
    IF Len(reader.data) >= saltLen
    THEN [salt |-> [i \in 1..saltLen |-> 0], err |-> nil]
    ELSE [salt |-> <<>>, err |-> reader.fail]

\* [salt, err]: rand.Read is io.ReadFull(rand.Reader, salt), which turns
\* an end of stream after some bytes into io.ErrUnexpectedEOF and passes
\* every other error of the source on
generateSalt(reader) ==
    IF Len(reader.data) >= saltLen
    THEN [salt |-> SubSeq(reader.data, 1, saltLen), err |-> nil]
    ELSE IF reader.fail = ErrEOF /\ Len(reader.data) > 0
    THEN [salt |-> <<>>, err |-> ErrUnexpectedEOF]
    ELSE [salt |-> <<>>, err |-> reader.fail]

\* Sprintf with the time and memory arguments in the wrong order
Sprintf_SwappedCosts(version, time, memory, threads, salt, hash) ==
    RxPrefix \o FormatNat(version) \o <<"$">> \o FormatUint(memory) \o <<",">>
    \o FormatUint(time) \o <<",">> \o FormatNat(threads) \o <<"$">>
    \o salt \o <<"$">> \o hash

\* fmt.Sprintf("$argon2id%d$%d,%d,%d$%s$%s", ...)
Sprintf(version, time, memory, threads, salt, hash) ==
    RxPrefix \o FormatNat(version) \o <<"$">> \o FormatUint(time) \o <<",">>
    \o FormatUint(memory) \o <<",">> \o FormatNat(threads) \o <<"$">>
    \o salt \o <<"$">> \o hash

\* the memory argument ignored
EffMemory_AlwaysDefault(memory) == WOf(defaultMemory)

\* the four defaulting statements
EffTime(time) == IF time = WZero THEN WOf(defaultTime) ELSE time
EffMemory(memory) == IF memory = WZero THEN WOf(defaultMemory) ELSE memory
EffThreads(threads) == IF threads = 0 THEN defaultThreads ELSE threads
EffKeyLen(keyLen) == IF keyLen = 0 THEN defaultKeyLen ELSE keyLen

\* the derivation and the formatting, with the effective values and the salt
hashWithSalt(password, time, memory, threads, keyLen, salt) ==
    Let(IDKey(password, salt, time, memory, threads, keyLen), LAMBDA hash :
        [text |-> Sprintf(Version, time, memory, threads,
                          EncodeToString(salt), EncodeToString(hash)),
         err |-> nil,
         calls |-> << RandCall,
                      IDKeyCall(password, salt, time, memory, threads, keyLen) >>])

\* [text, err, calls]
HashPassword(password, time, memory, threads, keyLen, reader) ==
    Let(generateSalt(reader), LAMBDA g :
        IF g.err # nil
        THEN [text |-> <<>>, err |-> g.err, calls |-> <<RandCall>>]
        ELSE hashWithSalt(password, EffTime(time), EffMemory(memory),
                          EffThreads(threads), EffKeyLen(keyLen), g.salt))

\* DefaultHashPassword
DefaultHashPassword(password, reader) ==
    HashPassword(password, WZero, WZero, 0, 0, reader)

(***************************************************************************)
(* The command (cmd/argon2id).  flags are the values flagset.Parse leaves  *)
(* in the flag variables, the integer ones as Go ints; pw is what          *)
(* readPassword returns ([bytes, err]).  stdout is the text written, and   *)
(* stderr the messages written, each with the error it formats.            *)
(***************************************************************************)
exitStatusNormal == 0
exitStatusError == 1
exitStatusMismatchHashAndPassword == 2

prompt == <<"P","a","s","s","w","o","r","d",":">>
okMessage ==
    <<"O","K"," ","-"," ","p","a","s","s","w","o","r","d"," ",
      "m","a","t","c","h","e","s"," ","h","a","s","h","e","d"," ",
      "p","a","s","s","w","o","r","d">>
newline == <<"\n">>

Message(m, e) == [msg |-> m, err |-> e]

\* uint32(n) of an int n: n modulo 2^32
Uint32(n) ==
    IF n >= 0 THEN WOf(n)
    ELSE Let(MaxUint32.lo + 1 - ((0 - n) % Base), LAMBDA lo :
             IF lo < 0
             THEN W(MaxUint32.hi - ((0 - n) \div Base) - 1, lo + Base)
             ELSE W(MaxUint32.hi - ((0 - n) \div Base), lo))

\* uint8(n) of an int n: n modulo 2^8
Uint8(n) == n % (MaxUint8 + 1)

\* the arguments HashPassword gets from the flags
HashArgs(flags) ==
    [time |-> Uint32(flags.time), memory |-> Uint32(flags.memory),
     threads |-> Uint8(flags.threads),
     keyLen |-> Let(Uint32(flags.keyLen), LAMBDA w : w.hi * Base + w.lo)]

NoRun == [status |-> exitStatusNormal, stdout |-> <<>>, stderr |-> <<>>,
          calls |-> <<>>, hashedPassword |-> <<>>, err |-> nil]

\* the compare mode, after the prompt
runCompare(flags, password, out) ==
    Let(Compare(flags.c, password), LAMBDA r :
        IF r.err # nil
        THEN [NoRun EXCEPT !.stdout = out, !.calls = r.calls, !.err = r.err,
                           !.stderr = << Message("", r.err) >>,
                           !.status = IF r.err = ErrMismatchedHashAndPassword
                                      THEN exitStatusMismatchHashAndPassword
                                      ELSE exitStatusError]
        ELSE [NoRun EXCEPT !.stdout = out \o okMessage \o newline,
                           !.calls = r.calls])

\* the hashing mode, after the prompt
runHash(flags, password, reader, out) ==
    Let(HashArgs(flags), LAMBDA a :
    Let(HashPassword(password, a.time, a.memory, a.threads, a.keyLen, reader),
        LAMBDA r :
        IF r.err # nil
        THEN [NoRun EXCEPT !.stdout = out, !.calls = r.calls, !.err = r.err,
                           !.stderr = << Message("could not hash password", r.err) >>,
                           !.status = exitStatusError]
        ELSE [NoRun EXCEPT !.calls = r.calls, !.hashedPassword = r.text,
                           !.stdout = out \o r.text
                               \o (IF flags.omitNewline THEN <<>> ELSE newline)]))

\* [status, stdout, stderr, calls, hashedPassword, err]
runCommand(flags, pw, reader) ==
    IF flags.help
    THEN [NoRun EXCEPT !.status = exitStatusError,
                       !.stderr = << Message("usage", nil) >>]
    ELSE
    Let(IF flags.quiet THEN <<>> ELSE prompt, LAMBDA out :
        IF pw.err # nil
        THEN [NoRun EXCEPT !.status = exitStatusError, !.stdout = out,
                           !.stderr = << Message("could not read password", pw.err) >>]
        ELSE IF Len(pw.bytes) = 0
        THEN [NoRun EXCEPT !.status = exitStatusError, !.stdout = out,
                           !.stderr = << Message("a password is required", nil) >>]
        ELSE
        Let(IF flags.quiet THEN out ELSE out \o newline, LAMBDA out2 :
            IF Len(flags.c) > 0
            THEN runCompare(flags, pw.bytes, out2)
            ELSE runHash(flags, pw.bytes, reader, out2)))

(***************************************************************************)
(* Inputs.                                                                 *)
(***************************************************************************)
\* "test", "bad", and the empty password, as bytes
PwTest == <<116, 101, 115, 116>>
PwBad == <<98, 97, 100>>
Passwords == {PwTest, PwBad, <<>>}

\* a cost value with its decimal text
Num(v, s) == [v |-> v, s |-> s]
D4294967295 == <<"4","2","9","4","9","6","7","2","9","5">>
D4294967296 == <<"4","2","9","4","9","6","7","2","9","6">>
D65536 == <<"6","5","5","3","6">>
D32768 == <<"3","2","7","6","8">>

\* arguments of HashPassword: uint32, uint32, uint8, uint32
TimeArgs == { Num(WZero, <<"0">>), Num(WOf(2), <<"2">>),
              Num(MaxUint32, D4294967295) }
MemoryArgs == { Num(WZero, <<"0">>), Num(WOf(32768), D32768),
                Num(MaxUint32, D4294967295) }
ThreadsArgs == { Num(0, <<"0">>), Num(2, <<"2">>),
                 Num(MaxUint8, <<"2","5","5">>) }
KeyLenArgs == (0..MaxKeyLen) \cup {17, defaultKeyLen}

\* the salt of TestDefaultHashPassword: "test.using.known.salt." decoded
KnownSalt == <<190, 11, 175, 3, 11, 164, 166, 32, 38, 166, 172, 169, 2, 231, 39, 188>>
OtherSalt == [i \in 1..saltLen |-> (i * 37) % 256]
\* "incomplete", the buffer of TestHashPasswordWithSaltError
Incomplete == <<105, 110, 99, 111, 109, 112, 108, 101, 116, 101>>

\* the known salt but for the lowest bit of its last byte
NearSalt == [KnownSalt EXCEPT ![saltLen] = 189]

Readers == { [data |-> KnownSalt, fail |-> ErrEOF],
             [data |-> KnownSalt \o <<9>>, fail |-> ErrEntropy],
             [data |-> NearSalt, fail |-> ErrEOF],
             [data |-> OtherSalt \o <<1, 2, 3>>, fail |-> ErrEOF],
             [data |-> Incomplete, fail |-> ErrEOF],
             [data |-> <<>>, fail |-> ErrEOF],
             [data |-> Incomplete, fail |-> ErrEntropy],
             [data |-> <<>>, fail |-> ErrEntropy] }

\* a received text by its parts: pre v $ t , m , th $ s $ h suf
Parts(pre, v, t, m, th, s, h, suf) ==
    [pre |-> pre, v |-> v, t |-> t, m |-> m, th |-> th, s |-> s, h |-> h,
     suf |-> suf, raw |-> FALSE]
\* a received text that is no record at all
Raw(t) ==
    [pre |-> t, v |-> <<>>, t |-> <<>>, m |-> <<>>, th |-> <<>>, s |-> <<>>,
     h |-> <<>>, suf |-> <<>>, raw |-> TRUE]
NoParts == Raw(<<>>)

Join(f) ==
    IF f.raw THEN f.pre
    ELSE f.pre \o f.v \o <<"$">> \o f.t \o <<",">> \o f.m \o <<",">> \o f.th
         \o <<"$">> \o f.s \o <<"$">> \o f.h \o f.suf

Rep(c, n) == [i \in 1..n |-> c]
Segs == { Rep("9", n) : n \in 1..MaxSegLen }

V19 == <<"1","9">>
V99 == <<"9","9">>

\* every combination of version, cost values and segment lengths
Records ==
    { Parts(RxPrefix, v, t, m, th, s, h, <<>>) :
        v \in {V19, V99},
        t \in {<<"0">>, <<"1">>, D4294967295, D4294967296},
        m \in {<<"0">>, D65536, D4294967296},
        th \in {<<"0">>, <<"2","5","5">>, <<"2","5","6">>},
        s \in Segs, h \in Segs }

\* one deviation each from a record that verifies the grammar
Good(v, t, m, th, s, h) == Parts(RxPrefix, v, t, m, th, s, h, <<>>)
S2 == Rep("9", 2)
Deviants ==
    { Raw(<<>>),
      Raw(<<"b","a","d","-","h","a","s","h">>),
      Raw(RxPrefix \o <<",","2",",","3","2","7","6","8",",","2","$","b","a","d">>),
      Parts(SubSeq(RxPrefix, 2, 9), V19, <<"1">>, D65536, <<"4">>, S2, S2, <<>>),
      Parts(<<"x">> \o RxPrefix, V19, <<"1">>, D65536, <<"4">>, S2, S2, <<>>),
      Parts(SubSeq(RxPrefix, 1, 8), V19, <<"1">>, D65536, <<"4">>, S2, S2, <<>>),
      Parts(RxPrefix, V19, <<"1">>, D65536, <<"4">>, S2, S2, <<"\n">>),
      Parts(RxPrefix, V19, <<"1">>, D65536, <<"4">>, S2, S2, <<"$">>),
      Parts(RxPrefix, V19, <<"1">>, D65536, <<"4">>, S2, S2, <<"$","9","9">>),
      Good(<<>>, <<"1">>, D65536, <<"4">>, S2, S2),
      Good(<<"0","0","1","9">>, <<"1">>, D65536, <<"4">>, S2, S2),
      Good(<<"0","0","0","1","9">>, <<"1">>, D65536, <<"4">>, S2, S2),
      Good(<<"1","x">>, <<"1">>, D65536, <<"4">>, S2, S2),
      Good(V19, <<>>, D65536, <<"4">>, S2, S2),
      Good(V19, <<"0","0","0","0","0","0","0","0","0","1">>, <<"0","0">>, <<"0","0","4">>, S2, S2),
      Good(V19, <<"0","0","0","0","0","0","0","0","0","0","1">>, D65536, <<"4">>, S2, S2),
      Good(V19, <<"1">>, D65536 \o D65536 \o <<"1">>, <<"4">>, S2, S2),
      Good(V19, <<"-","1">>, D65536, <<"4">>, S2, S2),
      Good(V19, <<"1">>, D65536, <<"1","0","0","0">>, S2, S2),
      Good(V19, <<"1">>, D65536, <<>>, S2, S2),
      Good(V19, <<"1">>, D65536, <<"4">>, <<>>, S2),
      Good(V19, <<"1">>, D65536, <<"4">>, S2, <<>>),
      Good(V19, <<"1">>, D65536, <<"4">>, <<"9","+","9">>, S2),
      Good(V19, <<"1">>, D65536, <<"4">>, S2, <<"9","9","=","=">>),
      Good(V19, <<"1">>, D65536, <<"4">>, <<"9","9"," ">>, S2),
      Good(V99, <<"0">>, D65536, <<"4">>, <<"9","-">>, Rep("9", 1)),
      Good(V19, <<"1">>, D65536, <<"4">>, EncodeToString(KnownSalt), EncodeToString(KnownSalt)) }

\* the record HashPassword issues for "test" with the known salt, the
\* default costs and a key of MaxKeyLen bytes
KnownKey == IDKey(PwTest, KnownSalt, WOf(defaultTime), WOf(defaultMemory),
                  defaultThreads, MaxKeyLen)
\* that record with byte k of its hash replaced by another
Tampered ==
    { Good(V19, <<"1">>, D65536, <<"4">>, EncodeToString(KnownSalt),
           EncodeToString([KnownKey EXCEPT ![k] = (@ + 1) % 256])) :
        k \in 1..MaxKeyLen }

Corpus == Records \cup Deviants \cup Tampered

\* an integer flag: the value flagset.Parse stores, with the text given
Flag(n, s) == [n |-> n, s |-> s]
D1024 == <<"1","0","2","4">>
TimeFlags == { Flag(0, <<"0">>), Flag(2, <<"2">>), Flag(0 - 1, <<"-","1">>) }
MemoryFlags == { Flag(0, <<"0">>), Flag(1024, D1024) }
ThreadsFlags == { Flag(0, <<"0">>), Flag(2, <<"2">>), Flag(MaxUint8, <<"2","5","5">>),
                  Flag(MaxUint8 + 1, <<"2","5","6">>), Flag(300, <<"3","0","0">>),
                  Flag(0 - 1, <<"-","1">>) }
KeyLenFlags == { Flag(0, <<"0">>), Flag(MaxKeyLen, FormatNat(MaxKeyLen)),
                 Flag(24, <<"2","4">>) }

\* "my-password", the password of the command's tests
MyPassword == <<109, 121, 45, 112, 97, 115, 115, 119, 111, 114, 100>>
ErrTerminal == Err("terminal")
PasswordReads == { [bytes |-> MyPassword, err |-> nil],
                   [bytes |-> PwTest, err |-> nil],
                   [bytes |-> <<>>, err |-> nil],
                   [bytes |-> <<>>, err |-> ErrTerminal] }

NoFlags == [c |-> <<>>, quiet |-> FALSE, omitNewline |-> FALSE, help |-> FALSE,
            time |-> Flag(0, <<"0">>), memory |-> Flag(0, <<"0">>),
            threads |-> Flag(0, <<"0">>), keyLen |-> Flag(0, <<"0">>)]

\* command lines: the hashing mode with every combination of the integer
\* flags, the compare mode, and -h
HashLines ==
    { [NoFlags EXCEPT !.time = t, !.memory = m, !.threads = th, !.keyLen = k,
                      !.omitNewline = n] :
        t \in TimeFlags, m \in MemoryFlags, th \in ThreadsFlags,
        k \in KeyLenFlags, n \in BOOLEAN }
CompareLines ==
    { [NoFlags EXCEPT !.c = Join(f), !.quiet = q] :
        f \in Tampered \cup { Raw(<<"b","a","d","-","h","a","s","h">>),
                              Good(V19, <<"1">>, D65536, <<"4">>,
                                   EncodeToString(KnownSalt),
                                   EncodeToString(KnownKey)) },
        q \in BOOLEAN }
CommandLines ==
    HashLines \cup CompareLines
    \cup { [NoFlags EXCEPT !.help = TRUE], [NoFlags EXCEPT !.quiet = TRUE] }

\* the flag values as runCommand reads them
FlagValues(flags) ==
    [c |-> flags.c, quiet |-> flags.quiet, omitNewline |-> flags.omitNewline,
     help |-> flags.help, time |-> flags.time.n, memory |-> flags.memory.n,
     threads |-> flags.threads.n, keyLen |-> flags.keyLen.n]

(***************************************************************************)
(* The state: the text a caller holds, where it came from, and the result  *)
(* of the last call.  The library itself keeps no state between calls.     *)
(***************************************************************************)
VARIABLES
    text,    \* the hashed-password text held
    origin,  \* how it was obtained: the HashPassword call or the parts received
    ret,     \* the last call and what it returned
    calls,   \* the external calls (rand.Read, argon2.IDKey) the last call made
    cmd      \* the last run of the command: its flags, its output, its status

vars == <<text, origin, ret, calls, cmd>>

NoArgs == [password |-> <<>>, time |-> Num(WZero, <<"0">>),
           memory |-> Num(WZero, <<"0">>), threads |-> Num(0, <<"0">>),
           keyLen |-> 0, reader |-> [data |-> <<>>, fail |-> ErrEOF]]
NoOrigin == [kind |-> "none", args |-> NoArgs, parts |-> NoParts, err |-> nil]
NoRet == [op |-> "none", err |-> nil, text |-> <<>>, ok |-> FALSE,
          password |-> <<>>, steps |-> 0, reader |-> NoArgs.reader]

NoCmd == [flags |-> NoFlags, pw |-> [bytes |-> <<>>, err |-> nil],
          status |-> exitStatusNormal, stdout |-> <<>>, stderr |-> <<>>]

Init ==
    /\ text = <<>>
    /\ origin = NoOrigin
    /\ ret = NoRet
    /\ calls = <<>>
    /\ cmd = NoCmd

\* a call of HashPassword; the caller keeps the text returned
CallHashPassword ==
    /\ origin.kind = "none"
    /\ \E password \in {PwTest, <<>>}, time \in TimeArgs, memory \in MemoryArgs,
          threads \in ThreadsArgs, keyLen \in KeyLenArgs, reader \in Readers :
        \E r \in {HashPassword(password, time.v, memory.v, threads.v, keyLen, reader)} :
            /\ text' = r.text
            /\ origin' = [kind |-> "HashPassword", parts |-> NoParts, err |-> r.err,
                          args |-> [password |-> password, time |-> time,
                                    memory |-> memory, threads |-> threads,
                                    keyLen |-> keyLen, reader |-> reader]]
            /\ ret' = [NoRet EXCEPT !.op = "HashPassword", !.err = r.err,
                                    !.text = r.text]
            /\ calls' = r.calls
    /\ UNCHANGED cmd

\* a call of DefaultHashPassword
CallDefaultHashPassword ==
    /\ origin.kind = "none"
    /\ \E password \in Passwords, reader \in Readers :
        \E r \in {DefaultHashPassword(password, reader)} :
            /\ text' = r.text
            /\ origin' = [kind |-> "DefaultHashPassword", parts |-> NoParts,
                          err |-> r.err,
                          args |-> [NoArgs EXCEPT !.password = password,
                                                  !.reader = reader]]
            /\ ret' = [NoRet EXCEPT !.op = "DefaultHashPassword", !.err = r.err,
                                    !.text = r.text]
            /\ calls' = r.calls
    /\ UNCHANGED cmd

\* HashPassword called once more with the password and the parameters of the
\* call that returned the text held, rand.Reader being whatever it is by
\* then; the caller keeps the first text and looks at the second
RepeatHashPassword ==
    /\ origin.kind \in {"HashPassword", "DefaultHashPassword"}
    /\ origin.err = nil
    /\ \E reader \in Readers :
        \E r \in {HashPassword(origin.args.password, origin.args.time.v,
                               origin.args.memory.v, origin.args.threads.v,
                               origin.args.keyLen, reader)} :
            /\ ret' = [NoRet EXCEPT !.op = "RepeatHashPassword", !.err = r.err,
                                    !.text = r.text, !.reader = reader]
            /\ calls' = r.calls
    /\ UNCHANGED <<text, origin, cmd>>

\* a run of the command; the caller keeps the record it printed, if any
RunCommand ==
    /\ origin.kind = "none"
    /\ \E flags \in CommandLines, pw \in PasswordReads,
          reader \in { [data |-> KnownSalt, fail |-> ErrEOF],
                       [data |-> Incomplete, fail |-> ErrEOF] } :
        \E r \in {runCommand(FlagValues(flags), pw, reader)},
           a \in {HashArgs(FlagValues(flags))} :
            /\ cmd' = [flags |-> flags, pw |-> pw, status |-> r.status,
                       stdout |-> r.stdout, stderr |-> r.stderr]
            /\ text' = r.hashedPassword
            /\ origin' = [kind |-> "runCommand", parts |-> NoParts, err |-> r.err,
                          args |-> [password |-> pw.bytes,
                                    time |-> Num(a.time, FormatUint(a.time)),
                                    memory |-> Num(a.memory, FormatUint(a.memory)),
                                    threads |-> Num(a.threads, FormatNat(a.threads)),
                                    keyLen |-> a.keyLen, reader |-> reader]]
            /\ ret' = [NoRet EXCEPT !.op = "runCommand", !.err = r.err,
                                    !.text = r.hashedPassword]
            /\ calls' = r.calls

\* the caller is given a text from elsewhere (storage, the -c flag)
Receive ==
    /\ origin.kind = "none"
    /\ \E f \in Corpus :
        /\ text' = Join(f)
        /\ origin' = [kind |-> "received", args |-> NoArgs, parts |-> f,
                      err |-> nil]
    /\ UNCHANGED <<ret, calls, cmd>>

\* a call of Compare on the text held
CallCompare ==
    /\ origin.kind # "none"
    /\ \E password \in Passwords :
        \E r \in {Compare(text, password)} :
            /\ ret' = [NoRet EXCEPT !.op = "Compare", !.err = r.err,
                                    !.password = password, !.steps = r.steps]
            /\ calls' = r.calls
    /\ UNCHANGED <<text, origin, cmd>>

\* a call of IsHashedPassword on the text held
CallIsHashedPassword ==
    /\ origin.kind # "none"
    /\ ret' = [NoRet EXCEPT !.op = "IsHashedPassword",
                            !.ok = IsHashedPassword(text)]
    /\ calls' = <<>>
    /\ UNCHANGED <<text, origin, cmd>>

\* the caller drops the text
Drop ==
    /\ origin.kind # "none"
    /\ text' = <<>>
    /\ origin' = NoOrigin
    /\ ret' = NoRet
    /\ calls' = <<>>
    /\ cmd' = NoCmd

Next ==
    \/ CallHashPassword
    \/ CallDefaultHashPassword
    \/ RepeatHashPassword
    \/ RunCommand
    \/ Receive
    \/ CallCompare
    \/ CallIsHashedPassword
    \/ Drop

Spec == Init /\ [][Next]_vars

(***************************************************************************)
(* What a text is, read off the way it was obtained (independently of rx   *)
(* and of the parser).                                                     *)
(***************************************************************************)
HashOps == {"HashPassword", "DefaultHashPassword"}
\* the text held was returned by HashPassword without error, to the caller
\* or to the command that printed it
Issued ==
    \/ origin.kind \in HashOps /\ origin.err = nil
    \/ origin.kind = "runCommand" /\ text # <<>>
Received == origin.kind = "received"
Compared == ret.op = "Compare"

AllIn(x, cls) == \A i \in 1..Len(x) : x[i] \in cls

\* the received parts are those of a text of the grammar
PartsInGrammar(f) ==
    /\ ~f.raw /\ f.pre = RxPrefix /\ f.suf = <<>>
    /\ Len(f.v) \in 1..4 /\ AllIn(f.v, DigitSet)
    /\ Len(f.t) \in 1..10 /\ AllIn(f.t, DigitSet)
    /\ Len(f.m) \in 1..10 /\ AllIn(f.m, DigitSet)
    /\ Len(f.th) \in 1..3 /\ AllIn(f.th, DigitSet)
    /\ Len(f.s) >= 1 /\ AllIn(f.s, AlphabetSet)
    /\ Len(f.h) >= 1 /\ AllIn(f.h, AlphabetSet)

\* the grammar of the record, on the text itself: the field lengths a, b,
\* c, d, e and the rest
Grammar(t) ==
    /\ Len(t) >= Len(RxPrefix) /\ SubSeq(t, 1, Len(RxPrefix)) = RxPrefix
    /\ \E a \in 1..4 :
        /\ Len(t) >= 9 + a + 1
        /\ AllIn(SubSeq(t, 10, 9 + a), DigitSet) /\ t[10 + a] = "$"
        /\ \E b \in 1..10 :
            /\ Len(t) >= 10 + a + b + 1
            /\ AllIn(SubSeq(t, 11 + a, 10 + a + b), DigitSet)
            /\ t[11 + a + b] = ","
            /\ \E c \in 1..10 :
                /\ Len(t) >= 11 + a + b + c + 1
                /\ AllIn(SubSeq(t, 12 + a + b, 11 + a + b + c), DigitSet)
                /\ t[12 + a + b + c] = ","
                /\ \E d \in 1..3 :
                    /\ Len(t) >= 12 + a + b + c + d + 1
                    /\ AllIn(SubSeq(t, 13 + a + b + c, 12 + a + b + c + d), DigitSet)
                    /\ t[13 + a + b + c + d] = "$"
                    /\ \E e \in 1..Len(t) :
                        /\ Len(t) >= 13 + a + b + c + d + e + 2
                        /\ AllIn(SubSeq(t, 14 + a + b + c + d,
                                        13 + a + b + c + d + e), AlphabetSet)
                        /\ t[14 + a + b + c + d + e] = "$"
                        /\ AllIn(SubSeq(t, 15 + a + b + c + d + e, Len(t)),
                                 AlphabetSet)

\* decimal texts compared as numbers, without converting them
RECURSIVE Strip(_)
Strip(d) == IF Len(d) > 1 /\ d[1] = "0" THEN Strip(Tail(d)) ELSE d
DecEq(a, b) == Strip(a) = Strip(b)
DecGt(a, b) ==
    LET x == Strip(a)
        y == Strip(b)
    IN  \/ Len(x) > Len(y)
        \/ /\ Len(x) = Len(y)
           /\ \E i \in 1..Len(x) :
                /\ digitVal(x[i]) > digitVal(y[i])
                /\ \A j \in 1..(i - 1) : x[j] = y[j]

\* a segment the codec rejects because of its length
Dangling(seg) == AllIn(seg, AlphabetSet) /\ Len(seg) % 4 = 1
Decodable(seg) == AllIn(seg, AlphabetSet) /\ Len(seg) % 4 # 1

VersionIsCurrent(f) == DecEq(f.v, V19)
ComplexityOutOfBounds(f) ==
    \/ DecEq(f.t, <<"0">>)
    \/ DecGt(f.t, D4294967295)
    \/ DecGt(f.m, D4294967295)
    \/ DecEq(f.th, <<"0">>)
    \/ DecGt(f.th, <<"2","5","5">>)

\* a received text that passes every check
ReceivedValid(f) ==
    /\ PartsInGrammar(f) /\ VersionIsCurrent(f)
    /\ Decodable(f.s) /\ Decodable(f.h) /\ ~ComplexityOutOfBounds(f)

\* what the text held embeds, when it is Issued or ReceivedValid
Embedded ==
    IF Received
    THEN [salt |-> DecodeString(origin.parts.s).bytes,
          time |-> Atoi(origin.parts.t), memory |-> Atoi(origin.parts.m),
          threads |-> Atoi(origin.parts.th).lo,
          hash |-> DecodeString(origin.parts.h).bytes]
    ELSE LET a == origin.args
             salt == SubSeq(a.reader.data, 1, saltLen)
             time == IF a.time.v = WZero THEN WOf(1) ELSE a.time.v
             memory == IF a.memory.v = WZero THEN WOf(65536) ELSE a.memory.v
             threads == IF a.threads.v = 0 THEN 4 ELSE a.threads.v
             keyLen == IF a.keyLen = 0 THEN 32 ELSE a.keyLen
         IN  [salt |-> salt, time |-> time, memory |-> memory,
              threads |-> threads,
              hash |-> IDKey(a.password, salt, time, memory, threads, keyLen)]

ParseErrorKinds == {"ErrInvalidHash", "CorruptInputError",
                    "ErrInvalidArgon2Version", "ErrInvalidComplexity"}

(***************************************************************************)
(* C1.  Hash-then-verify round trip: whenever HashPassword (any password,  *)
(* any time, memory, threads, keyLen, zero values included) returns a text *)
(* without error, Compare of that text with the same password returns nil; *)
(* in particular the text passes every check of the parser.                *)
(***************************************************************************)
C1_RoundTrip ==
    /\ (ret.op \in HashOps /\ ret.err = nil)
        => newHashedFromHashedPassword(ret.text).err = nil
    /\ (Issued /\ Compared /\ ret.password = origin.args.password)
        => ret.err = nil

\* Compare has accepted a text hashed with every argument zero
C1_Witness ==
    /\ Issued /\ origin.kind = "HashPassword" /\ Compared
    /\ origin.args.time.v = WZero /\ origin.args.memory.v = WZero
    /\ origin.args.threads.v = 0 /\ origin.args.keyLen = 0
    /\ ret.password = origin.args.password /\ ret.err = nil

(***************************************************************************)
(* C2.  For a text that parses, Compare calls the derivation exactly with  *)
(* the candidate password, the embedded salt, time, memory and threads and *)
(* the byte length of the embedded hash; it returns nil exactly when the   *)
(* derived bytes equal the embedded hash and ErrMismatchedHashAndPassword  *)
(* otherwise, never another error.  A password other than the hashed one   *)
(* gives ErrMismatchedHashAndPassword (the derivation of the model gives   *)
(* different outputs for the different passwords of the model).            *)
(***************************************************************************)
C2_CompareDerivesFromRecord ==
    (Compared /\ (Issued \/ (Received /\ ReceivedValid(origin.parts)))) =>
        LET e == Embedded
            derived == IDKey(ret.password, e.salt, e.time, e.memory,
                             e.threads, Len(e.hash))
        IN  /\ calls = << IDKeyCall(ret.password, e.salt, e.time, e.memory,
                                    e.threads, Len(e.hash)) >>
            /\ ret.err = nil <=> derived = e.hash
            /\ ret.err \in {nil, ErrMismatchedHashAndPassword}
            /\ (Issued /\ ret.password # origin.args.password)
                => ret.err = ErrMismatchedHashAndPassword

\* a received record with a 3-byte hash was compared and did not match
C2_Witness ==
    /\ Compared /\ Received /\ ReceivedValid(origin.parts)
    /\ Len(origin.parts.h) = 4
    /\ Len(calls) = 1 /\ calls[1].keyLen = 3
    /\ ret.err = ErrMismatchedHashAndPassword

(***************************************************************************)
(* C3.  Order of the checks of the parser, seen through Compare.           *)
(***************************************************************************)
\* the first failing check in the order grammar, salt decode, hash decode,
\* version, complexity
FirstFailureDecodeFirst(f) ==
    IF ~PartsInGrammar(f) THEN ErrInvalidHash
    ELSE IF Dangling(f.s) THEN CorruptInputError(Len(f.s) - 1)
    ELSE IF Dangling(f.h) THEN CorruptInputError(Len(f.h) - 1)
    ELSE IF ~VersionIsCurrent(f) THEN ErrInvalidArgon2Version
    ELSE IF ComplexityOutOfBounds(f) THEN ErrInvalidComplexity
    ELSE nil

\* the first failing check in the order grammar, version, hash decode,
\* salt decode, complexity
FirstFailureVersionFirst(f) ==
    IF ~PartsInGrammar(f) THEN ErrInvalidHash
    ELSE IF ~VersionIsCurrent(f) THEN ErrInvalidArgon2Version
    ELSE IF Dangling(f.h) THEN CorruptInputError(Len(f.h) - 1)
    ELSE IF Dangling(f.s) THEN CorruptInputError(Len(f.s) - 1)
    ELSE IF ComplexityOutOfBounds(f) THEN ErrInvalidComplexity
    ELSE nil

\* C3 as stated: when a text fails a check, Compare returns the error of
\* the earliest failing check in the order (1) grammar, (2) salt decode,
\* (3) hash decode, (4) version, (5) complexity bounds.
C3_OrderAsStated ==
    (Compared /\ Received /\ FirstFailureDecodeFirst(origin.parts) # nil)
        => ret.err = FirstFailureDecodeFirst(origin.parts)

\* C3 amended: when a text fails a check, Compare returns the error of the
\* earliest failing check in the order (1) grammar, (2) version, (3) hash
\* decode, (4) salt decode, (5) complexity bounds.
C3_OrderOfChecks ==
    (Compared /\ Received /\ FirstFailureVersionFirst(origin.parts) # nil)
        => ret.err = FirstFailureVersionFirst(origin.parts)

\* a record of the current version failing the salt decode (at 0), the
\* hash decode (at 4) and the bounds was compared: the hash's error
C3_Witness ==
    /\ Compared /\ Received /\ PartsInGrammar(origin.parts)
    /\ VersionIsCurrent(origin.parts)
    /\ Len(origin.parts.s) = 1 /\ Len(origin.parts.h) = 5
    /\ ComplexityOutOfBounds(origin.parts)
    /\ ret.err = CorruptInputError(4)

(***************************************************************************)
(* C4.  Corrupted salt or hash segment in an otherwise well formed record  *)
(* of the current version with cost values within bounds.                  *)
(***************************************************************************)
\* the record apart from its salt and hash segments
RestWellFormed(f) ==
    /\ ~f.raw /\ f.pre = RxPrefix /\ f.suf = <<>>
    /\ Len(f.v) \in 1..4 /\ AllIn(f.v, DigitSet)
    /\ Len(f.t) \in 1..10 /\ AllIn(f.t, DigitSet)
    /\ Len(f.m) \in 1..10 /\ AllIn(f.m, DigitSet)
    /\ Len(f.th) \in 1..3 /\ AllIn(f.th, DigitSet)
    /\ Len(f.s) >= 1 /\ Len(f.h) >= 1
    /\ VersionIsCurrent(f) /\ ~ComplexityOutOfBounds(f)

\* not valid codec text: a character outside the alphabet, or a length
\* that no unpadded encoding has
Corrupted(seg) == ~AllIn(seg, AlphabetSet) \/ Len(seg) % 4 = 1

\* C4 as stated: a corrupted salt or hash segment makes Compare return a
\* decode error, never ErrInvalidHash.
C4_CorruptedAsStated ==
    (Compared /\ Received /\ RestWellFormed(origin.parts)
       /\ (Corrupted(origin.parts.s) \/ Corrupted(origin.parts.h)))
        => ret.err.kind = "CorruptInputError"

\* C4 amended: a salt or hash segment of alphabet characters whose length
\* is 1 modulo 4 makes Compare return the decode error at the position of
\* its last character (of the hash segment if that one is so corrupted,
\* else of the salt segment), never ErrInvalidHash; a segment with a
\* character outside the alphabet fails the grammar: ErrInvalidHash.
C4_CorruptedSegment ==
    (Compared /\ Received /\ RestWellFormed(origin.parts)) =>
        LET f == origin.parts
        IN  /\ (AllIn(f.s, AlphabetSet) /\ AllIn(f.h, AlphabetSet)
                  /\ (Dangling(f.s) \/ Dangling(f.h)))
                => ret.err = CorruptInputError(IF Dangling(f.h)
                                               THEN Len(f.h) - 1
                                               ELSE Len(f.s) - 1)
            /\ (~AllIn(f.s, AlphabetSet) \/ ~AllIn(f.h, AlphabetSet))
                => ret.err = ErrInvalidHash

\* a record with a five-character salt and a sound hash was compared
C4_Witness ==
    /\ Compared /\ Received /\ RestWellFormed(origin.parts)
    /\ Len(origin.parts.s) = 5 /\ Decodable(origin.parts.h)
    /\ ret.err = CorruptInputError(4)

(***************************************************************************)
(* C5.  For a text of the grammar with the current version and decodable   *)
(* salt and hash, Compare returns ErrInvalidComplexity if and only if      *)
(* time = 0, time > 2^32-1, memory > 2^32-1, threads = 0 or threads > 255; *)
(* memory = 0 is accepted and handed to the derivation as 0.               *)
(***************************************************************************)
C5_ComplexityBounds ==
    (Compared /\ Received /\ PartsInGrammar(origin.parts)
       /\ VersionIsCurrent(origin.parts)
       /\ Decodable(origin.parts.s) /\ Decodable(origin.parts.h)) =>
        /\ ret.err = ErrInvalidComplexity <=> ComplexityOutOfBounds(origin.parts)
        /\ (DecEq(origin.parts.m, <<"0">>) /\ ~ComplexityOutOfBounds(origin.parts))
            => (Len(calls) = 1 /\ calls[1].memory = WZero)

\* a record with memory 0 and the largest time and threads was derived
C5_Witness ==
    /\ Compared /\ Received /\ PartsInGrammar(origin.parts)
    /\ VersionIsCurrent(origin.parts)
    /\ origin.parts.m = <<"0">> /\ origin.parts.t = D4294967295
    /\ origin.parts.th = <<"2","5","5">>
    /\ Len(calls) = 1 /\ calls[1].memory = WZero
    /\ ret.err = ErrMismatchedHashAndPassword

(***************************************************************************)
(* C6.  For a text of the grammar with decodable salt and hash whose       *)
(* version is not 19, Compare returns ErrInvalidArgon2Version, whether the *)
(* cost values are within bounds or not.                                   *)
(***************************************************************************)
C6_ForeignVersion ==
    (Compared /\ Received /\ PartsInGrammar(origin.parts)
       /\ Decodable(origin.parts.s) /\ Decodable(origin.parts.h)
       /\ ~VersionIsCurrent(origin.parts))
        => ret.err = ErrInvalidArgon2Version

\* a version 99 record with cost values out of bounds was compared
C6_Witness ==
    /\ Compared /\ Received /\ PartsInGrammar(origin.parts)
    /\ Decodable(origin.parts.s) /\ Decodable(origin.parts.h)
    /\ origin.parts.v = V99 /\ ComplexityOutOfBounds(origin.parts)
    /\ ret.err = ErrInvalidArgon2Version

C8_FailFast ==
    Compared =>
        /\ Len(calls) <= 1
        /\ \A i \in 1..Len(calls) : calls[i].fn = "argon2.IDKey"
        /\ ret.err.kind \in ParseErrorKinds => calls = <<>>
        /\ calls # <<>> => (Issued \/ (Received /\ ReceivedValid(origin.parts)))

\* a record rejected for its cost values alone, with nothing derived
C8_Witness ==
    /\ Compared /\ Received /\ PartsInGrammar(origin.parts)
    /\ VersionIsCurrent(origin.parts)
    /\ Decodable(origin.parts.s) /\ Decodable(origin.parts.h)
    /\ ret.err = ErrInvalidComplexity /\ calls = <<>>

(***************************************************************************)
(* C9.  HashPassword replaces each zero among time, memory, threads and    *)
(* keyLen by 1, 65536, 4, 32 and uses every other value unchanged; the     *)
(* text returned is $argon2id19$<time>,<memory>,<threads>$<salt>$<hash>    *)
(* with the effective values in decimal, a salt segment of 22 characters   *)
(* that decodes to the 16 bytes drawn and a hash segment that decodes to   *)
(* the effective keyLen bytes derived: 88 characters for the defaults, 68  *)
(* for (2, 32768, 2, 17).                                                  *)
(***************************************************************************)
OrDefault(s, d) == IF s = <<"0">> THEN d ELSE s

C9_DefaultsAndLayout ==
    (ret.op \in HashOps /\ ret.err = nil) =>
        LET a == origin.args
            e == Embedded
            head == RxPrefix \o V19 \o <<"$">> \o OrDefault(a.time.s, <<"1">>)
                    \o <<",">> \o OrDefault(a.memory.s, D65536)
                    \o <<",">> \o OrDefault(a.threads.s, <<"4">>) \o <<"$">>
            n == Len(head)
            saltSeg == SubSeq(ret.text, n + 1, n + 22)
            hashSeg == SubSeq(ret.text, n + 24, Len(ret.text))
            keyLen == IF a.keyLen = 0 THEN 32 ELSE a.keyLen
        IN  /\ Len(ret.text) >= n + 24
            /\ SubSeq(ret.text, 1, n) = head
            /\ ret.text[n + 23] = "$"
            /\ AllIn(saltSeg, AlphabetSet)
            /\ DecodeString(saltSeg) = [bytes |-> e.salt, err |-> nil]
            /\ Len(e.salt) = 16
            /\ AllIn(hashSeg, AlphabetSet)
            /\ DecodeString(hashSeg) = [bytes |-> e.hash, err |-> nil]
            /\ Len(e.hash) = keyLen
            /\ calls = << RandCall,
                          IDKeyCall(a.password, e.salt, e.time, e.memory,
                                    e.threads, keyLen) >>
            /\ (a.time.s = <<"0">> /\ a.memory.s = <<"0">>
                  /\ a.threads.s = <<"0">> /\ a.keyLen = 0)
                => Len(ret.text) = 88
            /\ (a.time.s = <<"2">> /\ a.memory.s = D32768
                  /\ a.threads.s = <<"2">> /\ a.keyLen = 17)
                => Len(ret.text) = 68

\* HashPassword(p, 2, 32768, 2, 17) has returned its 68 characters
C9_Witness ==
    /\ ret.op = "HashPassword" /\ ret.err = nil
    /\ origin.args.time.v = WOf(2) /\ origin.args.memory.v = WOf(32768)
    /\ origin.args.threads.v = 2 /\ origin.args.keyLen = 17
    /\ Len(ret.text) = 68

(***************************************************************************)
(* C10.  When the randomness source cannot supply 16 bytes, HashPassword   *)
(* and DefaultHashPassword return the empty text and the error of the      *)
(* read (io.ErrUnexpectedEOF for a buffer that ends early), after one read *)
(* and without invoking the derivation.                                    *)
(***************************************************************************)
\* what rand.Read reports for a source that has fewer than 16 bytes
ShortReadError(reader) ==
    IF reader.fail = ErrEOF
    THEN (IF Len(reader.data) = 0 THEN ErrEOF ELSE ErrUnexpectedEOF)
    ELSE reader.fail

C10_SaltFailure ==
    (ret.op \in HashOps /\ Len(origin.args.reader.data) < 16) =>
        /\ ret.text = <<>> /\ text = <<>>
        /\ ret.err # nil
        /\ ret.err = ShortReadError(origin.args.reader)
        /\ calls = <<RandCall>>

\* DefaultHashPassword on the ten bytes "incomplete"
C10_Witness ==
    /\ ret.op = "DefaultHashPassword"
    /\ origin.args.reader = [data |-> Incomplete, fail |-> ErrEOF]
    /\ ret.text = <<>> /\ ret.err = ErrUnexpectedEOF

(***************************************************************************)
(* C11.  For a fixed password and fixed parameters the text HashPassword   *)
(* returns is determined by the salt alone: a second call that draws the   *)
(* same 16 bytes returns the same text, byte for byte, and a second call   *)
(* that draws other bytes returns another text.                            *)
(***************************************************************************)
\* the bytes a call takes from the source when it has enough of them
Drawn(reader) == SubSeq(reader.data, 1, 16)

Repeated == ret.op = "RepeatHashPassword" /\ ret.err = nil

C11_SaltAloneDeterminesText ==
    Repeated =>
        /\ Len(origin.args.reader.data) >= 16 /\ Len(ret.reader.data) >= 16
        /\ (Drawn(ret.reader) = Drawn(origin.args.reader)) <=> (ret.text = text)

\* the second call had another source than the first, one that supplies
\* the same 16 bytes, and returned the text again
C11_Witness ==
    /\ Repeated
    /\ ret.reader # origin.args.reader
    /\ Drawn(ret.reader) = Drawn(origin.args.reader)
    /\ ret.text = text /\ Len(text) = 68

(***************************************************************************)
(* C12.  The codec round-trips in both directions: decoding the encoding   *)
(* of a byte sequence gives the byte sequence back, and encoding what an   *)
(* accepted unpadded segment over the alphabet decodes to gives the        *)
(* segment back, so that no two distinct salt or hash segments of accepted *)
(* records denote the same bytes.                                          *)
(***************************************************************************)
\* Compare went past the parser: the record held was accepted
Accepted ==
    Compared /\ ret.err \in {nil, ErrMismatchedHashAndPassword}

\* decode(encode(b)) = b, for the salt drawn and the key derived by a call
\* of HashPassword and for the salt Compare took out of a record
C12_DecodeOfEncode ==
    /\ (ret.op \in HashOps /\ ret.err = nil) =>
          /\ DecodeString(EncodeToString(calls[2].salt)).bytes = calls[2].salt
          /\ DecodeString(EncodeToString(Embedded.hash)) =
                [bytes |-> Embedded.hash, err |-> nil]
          /\ Len(Embedded.hash) = calls[2].keyLen
    /\ Accepted =>
          DecodeString(EncodeToString(calls[1].salt)) =
              [bytes |-> calls[1].salt, err |-> nil]

\* encode(decode(s)) = s, for the salt and hash segments of an accepted
\* record; the salt is the one Compare handed to the derivation
C12_EncodeOfDecode ==
    (Accepted /\ Received) =>
        /\ EncodeToString(calls[1].salt) = origin.parts.s
        /\ EncodeToString(DecodeString(origin.parts.h).bytes) = origin.parts.h

\* the claim as stated, both directions
C12_RoundTripAsStated == C12_DecodeOfEncode /\ C12_EncodeOfDecode

(***************************************************************************)
(* C13.  In Compare the derived bytes and the embedded hash are two        *)
(* buffers of equal length, and their comparison visits every byte: the    *)
(* number of steps it takes is the length of the hash, wherever the first  *)
(* differing byte lies and also when no byte differs, so that two runs     *)
(* that differ only in the position of the mismatch do the same work.      *)
(***************************************************************************)
\* the position of the first byte in which x and y differ, 0 if none
FirstDiff(x, y) ==
    IF x = y THEN 0
    ELSE CHOOSE i \in 1..Len(x) : x[i] # y[i] /\ \A j \in 1..(i - 1) : x[j] = y[j]

\* the bytes Compare derived, by the call it recorded
Derived ==
    IDKey(calls[1].password, calls[1].salt, calls[1].time, calls[1].memory,
          calls[1].threads, calls[1].keyLen)

C13_ConstantTimeComparison ==
    Accepted =>
        /\ Len(Derived) = Len(Embedded.hash)
        /\ ret.steps = Len(Embedded.hash)
        /\ (ret.err = nil) <=> (FirstDiff(Embedded.hash, Derived) = 0)

\* the derived bytes differ from the embedded hash in the last byte only,
\* and the comparison took as many steps as there are bytes
C13_Witness ==
    /\ Accepted /\ Received /\ origin.parts \in Tampered
    /\ ret.err = ErrMismatchedHashAndPassword
    /\ Len(Embedded.hash) > 1
    /\ FirstDiff(Embedded.hash, Derived) = Len(Embedded.hash)
    /\ ret.steps = Len(Embedded.hash)

(***************************************************************************)
(* C14.  The command in hashing mode: for every non-zero integer given to  *)
(* -time, -memory, -threads and -keylen the record printed carries exactly *)
(* those values in its time, memory and threads fields and a hash segment  *)
(* of exactly keylen bytes (-time 2 -memory 1024 -threads 2 -keylen 24     *)
(* prints a record of 76 characters containing $2,1024,2$); the flags are  *)
(* converted to uint32/uint8 before HashPassword is called.                *)
(***************************************************************************)
\* the command has printed a record
Printed ==
    /\ ret.op = "runCommand" /\ cmd.status = exitStatusNormal
    /\ ~cmd.flags.help /\ cmd.flags.c = <<>>

\* the fields of the record printed
Fields == FindStringSubmatch(text)

C14_FlagsAsStated ==
    Printed =>
        /\ Fields # <<>>
        /\ cmd.flags.time.n # 0 => Fields[2] = cmd.flags.time.s
        /\ cmd.flags.memory.n # 0 => Fields[3] = cmd.flags.memory.s
        /\ cmd.flags.threads.n # 0 => Fields[4] = cmd.flags.threads.s
        /\ cmd.flags.keyLen.n # 0 =>
              Len(DecodeString(Fields[6]).bytes) = cmd.flags.keyLen.n
        /\ (cmd.flags.time.n = 2 /\ cmd.flags.memory.n = 1024
              /\ cmd.flags.threads.n = 2 /\ cmd.flags.keyLen.n = 24)
            => Len(text) = 76

\* the same for flags that fit the parameter types of HashPassword: the
\* record carries the values given
C14_FlagsInRange ==
    Printed =>
        /\ Fields # <<>>
        /\ cmd.flags.time.n > 0 => Fields[2] = cmd.flags.time.s
        /\ cmd.flags.memory.n > 0 => Fields[3] = cmd.flags.memory.s
        /\ cmd.flags.threads.n \in 1..255 => Fields[4] = cmd.flags.threads.s
        /\ cmd.flags.keyLen.n > 0 =>
              Len(DecodeString(Fields[6]).bytes) = cmd.flags.keyLen.n
        /\ (cmd.flags.time.n = 2 /\ cmd.flags.memory.n = 1024
              /\ cmd.flags.threads.n = 2 /\ cmd.flags.keyLen.n = 24)
            => Len(text) = 76 /\ Len(cmd.stdout) = Len(prompt) + 1 + 76
                                  + (IF cmd.flags.omitNewline THEN 0 ELSE 1)

====
